---- MODULE Spec2Model ----
(***************************************************************************)
(* Model of src/index.js: the XtermJSShell session (command registry,      *)
(* autocomplete resolver, read-eval-print loop, run) and the SubShell      *)
(* invocation context with its raw input stream.                           *)
(***************************************************************************)
EXTENDS Integers, Sequences, FiniteSets, TLC

VARIABLES
    commands,   \* XtermJSShell.commands: insertion-ordered Map, a sequence of entries
    warnings,   \* messages passed to console.warn by command()
    term,       \* the terminal surface: its cols and rows
    ac,         \* the latest autoCompleteCommands call: arguments, result, provider calls
    pc,         \* position of the repl()/run() chain
    passes,     \* repl() passes started
    line,       \* repl: the line read by echo.read
    command,    \* repl: argv.shift()
    raw_args,   \* repl: parsed._
    e,          \* the error in flight: caught by repl, or the rejection of repl()
    subshells,  \* every SubShell constructed by run(): its destroyed flag, and the handler
                \* called with it, the arguments, whether that call's result is still
                \* outstanding, and the chunks that handler's sequence yielded
    shell,      \* run: index of its SubShell in subshells, 0 when none
    data,       \* run: the chunk held by the for-await loop body
    io,         \* calls made on the terminal, the line editor and the console
    attached,   \* XtermJSShell.attached
    echo,       \* the line editor: its attachment state, detach() and attach() calls received
    streams,    \* SubShell.readStream() generators that were started
    op          \* the latest operation invoked on a SubShell: whether the SubShell was
                \* destroyed at the call and whether the call threw

vars == <<commands, warnings, ac, term, pc, passes, line, command, raw_args, e, subshells,
          shell, data, io, attached, echo, streams, op>>

\* ---------------------------------------------------------------- bounds
MaxRegs == 3        \* registrations performed by command()
MaxTokens == 2      \* length of the tokens array handed to the resolver
MaxIndex == 2       \* largest argument index handed to the resolver
MaxPasses == 2      \* repl() passes
MaxChunks == 2      \* chunks one lazy output sequence yields
MaxOps == 1         \* terminal and line editor calls made through SubShell operations
MaxStreams == 2     \* raw input streams started
MaxCalls == 4       \* echo.detach() and echo.attach() calls while the host calls detach()/attach()
MaxQueue == 1       \* input events buffered by one stream while its consumer holds a chunk

\* ---------------------------------------------------------------- values
Names == {"a", "b"}                 \* command names
DefaultSize == [cols |-> 80, rows |-> 24]       \* the terminal as it is opened
Sizes == {DefaultSize, [cols |-> 132, rows |-> 43]}
Handlers == {"h1", "h2"}            \* handler functions (identity only)
Undefined == "undefined"            \* the JavaScript value undefined
Providers == {"p1", "p2"}           \* autocomplete provider functions

\* ------------------------------------------------------- Map (Map.prototype)
RECURSIVE MapFind(_, _, _)
\* index of key k in map m at or after position i, 0 when absent
MapFind(m, k, i) ==
    IF i > Len(m) THEN 0
    ELSE IF m[i].command = k THEN i
    ELSE MapFind(m, k, i + 1)

MapHas(m, k) == MapFind(m, k, 1) # 0

\* a lookup that returns the entry registered first
MapGetFirst(m, k) == m[1]

MapGet(m, k) == m[MapFind(m, k, 1)]

\* a registry that keeps the first binding of a key
MapSetKeepFirst(m, k, entry) ==
    IF MapHas(m, k) THEN m ELSE Append(m, entry)

\* Map.set keeps the position of an existing key and appends a new one
MapSet(m, k, entry) ==
    IF MapHas(m, k) THEN [m EXCEPT ![MapFind(m, k, 1)] = entry]
    ELSE Append(m, entry)

MapKeys(m) == [i \in 1..Len(m) |-> m[i].command]

\* ------------------------------------------------------------ error texts
ERROR_NOT_FOUND(name) == <<"Command Not Found: ", name>>

ERROR_ALREADY_REGISTERED(name) == <<"Command Already Registered: ", name>>

\* ---------------------------------------------------------------- command
\* XtermJSShell.command(command, fn, autocomplete)
Command(name, fn, autocomplete) ==
    /\ Len(warnings) + Len(commands) < MaxRegs
    /\ warnings' = IF MapHas(commands, name)
                   THEN Append(warnings, ERROR_ALREADY_REGISTERED(name))
                   ELSE warnings
    /\ commands' = MapSet(commands, name,
                          [command |-> name, fn |-> fn, autocomplete |-> autocomplete])

\* ------------------------------------------------------ autoCompleteCommands
\* an autocomplete provider is an opaque function of (index, args); its result
\* identifies the provider and both arguments
ProviderCall(p, index, args) == [by |-> p, index |-> index, args |-> args]

\* Array.prototype.slice(1)
Slice1(s) == IF Len(s) = 0 THEN <<>> ELSE Tail(s)

\* tokens[0]
Token0(tokens) == IF Len(tokens) = 0 THEN Undefined ELSE tokens[1]

\* a resolver that filters the command names by the partial input
autoCompleteFiltered(index, tokens) ==
    LET cmd == Token0(tokens) IN
    IF index = 0 THEN [result |-> SelectSeq(MapKeys(commands), LAMBDA n : n = cmd),
                       called |-> <<>>]
    ELSE IF MapHas(commands, cmd) THEN
        LET autocomplete == MapGet(commands, cmd).autocomplete IN
        IF autocomplete = Undefined THEN [result |-> <<>>, called |-> <<>>]
        ELSE [result |-> <<ProviderCall(autocomplete, index - 1, Slice1(tokens))>>,
              called |-> <<ProviderCall(autocomplete, index - 1, Slice1(tokens))>>]
    ELSE [result |-> <<>>, called |-> <<>>]

\* a resolver that hands the provider its own index and tokens
autoCompleteUnshifted(index, tokens) ==
    LET cmd == Token0(tokens) IN
    IF index = 0 THEN [result |-> MapKeys(commands), called |-> <<>>]
    ELSE IF MapHas(commands, cmd) THEN
        LET autocomplete == MapGet(commands, cmd).autocomplete IN
        IF autocomplete = Undefined THEN [result |-> <<>>, called |-> <<>>]
        ELSE [result |-> <<ProviderCall(autocomplete, index, tokens)>>,
              called |-> <<ProviderCall(autocomplete, index, tokens)>>]
    ELSE [result |-> <<>>, called |-> <<>>]

\* XtermJSShell.autoCompleteCommands(index, tokens): the returned list and the
\* provider calls made while computing it
autoCompleteCommands(index, tokens) ==
    LET cmd == Token0(tokens) IN
    IF index = 0 THEN [result |-> MapKeys(commands), called |-> <<>>]
    ELSE IF MapHas(commands, cmd) THEN
        LET autocomplete == MapGet(commands, cmd).autocomplete IN
        IF autocomplete = Undefined THEN [result |-> <<>>, called |-> <<>>]
        ELSE [result |-> <<ProviderCall(autocomplete, index - 1, Slice1(tokens))>>,
              called |-> <<ProviderCall(autocomplete, index - 1, Slice1(tokens))>>]
    ELSE [result |-> <<>>, called |-> <<>>]

Partials == Names \cup {"x"}        \* what may be typed as the command name

ArgSeqs == UNION {[1..n -> {"x", "y"}] : n \in 0..(MaxTokens - 1)}

\* the token arrays of the line editor: empty, or a command name and arguments
TokenSeqs == {<<>>} \cup {<<c>> \o args : c \in Partials, args \in ArgSeqs}

NoCall == [index |-> 0, tokens |-> <<>>, result |-> <<>>, called |-> <<>>, done |-> FALSE]

\* the line editor asks for completions
AutoComplete(index, tokens) ==
    LET r == autoCompleteCommands(index, tokens) IN
    ac' = [index |-> index, tokens |-> tokens, result |-> r.result,
           called |-> r.called, done |-> TRUE]

\* ------------------------------------------------------------- tokenizing
WHITESPACE == {" "}

RECURSIVE Split(_, _, _)
\* stringToArgv on a line without quotes: the maximal runs of non-whitespace
\* characters; cur is the token being read, acc the tokens read so far
Split(chars, cur, acc) ==
    IF Len(chars) = 0 THEN (IF cur = "" THEN acc ELSE Append(acc, cur))
    ELSE IF Head(chars) \in WHITESPACE
         THEN Split(Tail(chars), "", IF cur = "" THEN acc ELSE Append(acc, cur))
         ELSE Split(Tail(chars), cur \o Head(chars), acc)

stringToArgv(l) == Split(l, "", <<>>)

\* argv.shift(): the first element, undefined on an empty array
Shift(argv) == IF Len(argv) = 0 THEN Undefined ELSE Head(argv)

\* the option tokens that occur in the lines read
Options == {"-v"}

RECURSIVE Positional(_)
\* minimist(argv)._ : the tokens that are neither an option nor the value of
\* one; a short option takes the token after it as its value unless that token
\* is an option too
Positional(argv) ==
    IF Len(argv) = 0 THEN <<>>
    ELSE IF Head(argv) \in Options
         THEN IF Len(argv) >= 2 /\ argv[2] \notin Options
              THEN Positional(Tail(Tail(argv)))
              ELSE Positional(Tail(argv))
         ELSE <<Head(argv)>> \o Positional(Tail(argv))

\* ------------------------------------------------------------------ errors
NoError == [type |-> "none", message |-> <<>>, src |-> "none"]

\* new Error(message) / new TypeError(message) raised at src
Err(type, message, src) == [type |-> type, message |-> message, src |-> src]

\* what a handler may throw or reject with: an Error with a message, or the
\* value undefined (throw undefined, Promise.reject())
Thrown(src) ==
    IF src = "reject" THEN {Err("Error", <<"boom">>, src), Err("undefined", <<>>, src)}
    ELSE {Err("Error", <<"boom">>, src)}

\* ------------------------------------------------------ terminal / echo calls
Call(target, arg) == [call |-> target, arg |-> arg]

\* ---------------------------------------------------------------- SubShell
NewSubShell(fn, args) ==
    [destroyed |-> FALSE, fn |-> fn, args |-> args, running |-> TRUE, yielded |-> <<>>]

\* the handler called with SubShell c has thrown, returned a plain value, or
\* its promise or lazy sequence has finished
settle(ss, c) == [ss EXCEPT ![c].running = FALSE]

\* SubShell.destroy()
\* a destroy() that flips the flag
destroyToggle(ss, c) == [ss EXCEPT ![c].destroyed = ~@]

destroy(ss, c) == [ss EXCEPT ![c].destroyed = TRUE]

\* a guard with its condition inverted
checkNotDestroyed(c) == ~subshells[c].destroyed

\* SubShell.checkDestroyed(): TRUE when it throws
checkDestroyed(c) == subshells[c].destroyed

\* SubShell.print(message) -> XtermJSShell.print -> term.write
print(c, message) ==
    IF checkDestroyed(c) THEN io ELSE Append(io, Call("term.write", message))

\* ---------------------------------------------------- attach / detach
\* a detach() without the test of line 53
detachUnguarded(att, ech) ==
    [attached |-> FALSE,
     echo |-> [ech EXCEPT !.attached = FALSE, !.detach = @ + 1]]

\* XtermJSShell.detach(): the session flag and the line editor after the call
detach(att, ech) ==
    IF ~att THEN [attached |-> att, echo |-> ech]
    ELSE [attached |-> FALSE,
          echo |-> [ech EXCEPT !.attached = FALSE, !.detach = @ + 1]]

\* XtermJSShell.attach()
attach(att, ech) ==
    IF att THEN [attached |-> att, echo |-> ech]
    ELSE [attached |-> TRUE,
          echo |-> [ech EXCEPT !.attached = TRUE, !.attach = @ + 1]]

\* ------------------------------------------------------------------- repl
Lines == { <<>>, <<" ">>, <<"b", " ", "-", "v", " ", "x">>, <<"a", " ", " ", "x", " ", "y">> }

Chunks == {"a", "b"}

NoLocals ==
    /\ line' = <<>>
    /\ command' = Undefined
    /\ raw_args' = <<>>
    /\ shell' = 0
    /\ data' = Undefined

\* line 104: this.repl() starts the next pass with fresh locals
Loop ==
    /\ pc' = "prompt"
    /\ e' = NoError
    /\ NoLocals

\* the promise of repl() rejects with err: nothing continues the chain
Rejected(err) ==
    /\ pc' = "rejected"
    /\ e' = err

\* the host calls repl()
Start ==
    /\ pc = "new"
    /\ pc' = "prompt"
    /\ UNCHANGED <<commands, warnings, ac, term, passes, line, command, raw_args, e, subshells,
                   shell, data, io, attached, echo, streams, op>>

\* line 85: await this.prompt()
Prompt ==
    /\ pc = "prompt"
    /\ passes < MaxPasses
    /\ passes' = passes + 1
    /\ \/ /\ pc' = "read"
          /\ UNCHANGED e
       \/ Rejected(Err("Error", <<"prompt">>, "prompt"))
    /\ UNCHANGED <<commands, warnings, ac, term, line, command, raw_args, subshells,
                   shell, data, io, attached, echo, streams, op>>

\* line 86: await this.echo.read(prompt) resolves with a line
ReadLineFrom(lines) ==
    /\ pc = "read"
    /\ \E l \in lines : line' = l
    /\ pc' = "tokenize"
    /\ UNCHANGED <<commands, warnings, ac, term, passes, command, raw_args, e, subshells,
                   shell, data, io, attached, echo, streams, op>>

\* lines 88-93: stringToArgv, argv.shift(), minimist; either library may throw
Tokenize ==
    /\ pc = "tokenize"
    /\ \/ /\ command' = Shift(stringToArgv(line))
          /\ raw_args' = Positional(Slice1(stringToArgv(line)))
          /\ pc' = "run"
          /\ UNCHANGED e
       \/ /\ Rejected(Err("Error", <<"parse">>, "tokenize"))
          /\ UNCHANGED <<command, raw_args>>
    /\ UNCHANGED <<commands, warnings, ac, term, passes, line, subshells,
                   shell, data, io, attached, echo, streams, op>>

\* echo.read rejects: the pending read is cancelled by abortRead
ReadAbort ==
    /\ pc = "read"
    /\ Rejected(Err("Error", <<"aborted">>, "read"))
    /\ UNCHANGED <<commands, warnings, ac, term, passes, line, command, raw_args, subshells,
                   shell, data, io, attached, echo, streams, op>>

\* a loop without its try block: the error leaves repl()
Uncaught(err) == Rejected(err)

\* the catch block of repl() is entered with err
Catch(err) ==
    /\ pc' = "catch"
    /\ e' = err

\* -------------------------------------------------------------------- run
\* a run() without the test of line 114
NeverFalsy(v) == FALSE

\* line 114: !command
Falsy(v) == v \in {Undefined, ""}

\* a run() that does not wait for the handler's promise
NoAwait(created, c) ==
    /\ subshells' = created
    /\ Loop

\* line 125: await result
AwaitResult(created, c) ==
    /\ pc' = "await"
    /\ subshells' = created
    /\ shell' = c
    /\ UNCHANGED <<line, command, raw_args, data, e>>

\* what calling a handler produces: it throws, or returns undefined, an object
\* that is neither thenable nor an iterator, a promise, or a lazy sequence
HandlerResults == {"throw", "undefined", "plain", "promise", "generator"}

\* lines 97, 113-126: run() up to its first suspension, for a handler whose
\* call produces one of results
RunWith(results) ==
    /\ pc = "run"
    /\ \/ /\ Falsy(command)                           \* line 114
          /\ Loop
          /\ UNCHANGED subshells
       \/ /\ ~Falsy(command)
          /\ ~MapHas(commands, command)               \* lines 115-116
          /\ Catch(Err("TypeError", ERROR_NOT_FOUND(command), "lookup"))
          /\ UNCHANGED <<line, command, raw_args, shell, data, subshells>>
       \/ /\ ~Falsy(command)
          /\ MapHas(commands, command)
          /\ \E result \in results :
              LET fn == MapGet(commands, command).fn             \* line 118
                  created == Append(subshells, NewSubShell(fn, raw_args))  \* line 120
                  c == Len(created)
              IN  CASE result = "throw" ->                       \* line 122 throws
                        /\ \E err \in Thrown("handler") : Catch(err)
                        /\ subshells' = settle(created, c)
                        /\ shell' = c
                        /\ UNCHANGED <<line, command, raw_args, data>>
                    [] result = "undefined" ->                   \* line 124 throws
                        /\ Catch(Err("TypeError", <<"Cannot read properties of undefined">>, "result"))
                        /\ subshells' = settle(created, c)
                        /\ shell' = c
                        /\ UNCHANGED <<line, command, raw_args, data>>
                    [] result = "plain" ->                       \* line 132
                        /\ subshells' = destroy(settle(created, c), c)
                        /\ Loop
                    [] result = "promise" ->                     \* line 125
                        AwaitResult(created, c)
                    [] result = "generator" ->                   \* line 127
                        /\ pc' = "pull"
                        /\ subshells' = created
                        /\ shell' = c
                        /\ UNCHANGED <<line, command, raw_args, data, e>>
    /\ UNCHANGED <<commands, warnings, ac, term, passes, io, attached, echo, streams, op>>

\* line 125: the handler's promise resolves; line 132
Resolve ==
    /\ pc = "await"
    /\ subshells' = destroy(settle(subshells, shell), shell)
    /\ Loop
    /\ UNCHANGED <<commands, warnings, ac, term, passes, io, attached, echo, streams, op>>

\* line 125: the handler's promise rejects
Reject ==
    /\ pc = "await"
    /\ \E err \in Thrown("reject") : Catch(err)
    /\ subshells' = settle(subshells, shell)
    /\ UNCHANGED <<commands, warnings, ac, term, passes, line, command, raw_args,
                   shell, data, io, attached, echo, streams, op>>

\* line 127: the lazy sequence yields a chunk
GenYield ==
    /\ pc = "pull"
    /\ Len(subshells[shell].yielded) < MaxChunks
    /\ \E x \in Chunks :
        /\ data' = x
        /\ subshells' = [subshells EXCEPT ![shell].yielded = Append(@, x)]
    /\ pc' = "body"
    /\ UNCHANGED <<commands, warnings, ac, term, passes, line, command, raw_args, e,
                   shell, io, attached, echo, streams, op>>

\* line 128: shell.print(data), not awaited
Body ==
    /\ pc = "body"
    /\ io' = print(shell, <<data>>)
    /\ pc' = "pull"
    /\ UNCHANGED <<commands, warnings, ac, term, passes, line, command, raw_args, e, subshells,
                   shell, data, attached, echo, streams, op>>

\* line 127: the lazy sequence is exhausted; line 132
GenReturn ==
    /\ pc = "pull"
    /\ subshells' = destroy(settle(subshells, shell), shell)
    /\ Loop
    /\ UNCHANGED <<commands, warnings, ac, term, passes, io, attached, echo, streams, op>>

\* line 127: the lazy sequence throws while being drained
GenThrow ==
    /\ pc = "pull"
    /\ \E err \in Thrown("drain") : Catch(err)
    /\ subshells' = settle(subshells, shell)
    /\ UNCHANGED <<commands, warnings, ac, term, passes, line, command, raw_args,
                   shell, data, io, attached, echo, streams, op>>

\* lines 98-104: console.error(e), echo.println(e.message), this.repl();
\* reading e.message of undefined throws inside the catch block
CatchBlock ==
    /\ pc = "catch"
    /\ IF e.type = "undefined"
       THEN /\ io' = Append(io, Call("console.error", e.message))
            /\ Rejected(Err("TypeError", <<"Cannot read properties of undefined">>, e.src))
            /\ UNCHANGED <<line, command, raw_args, shell, data>>
       ELSE /\ io' = io \o <<Call("console.error", e.message), Call("echo.println", e.message)>>
            /\ Loop
    /\ UNCHANGED <<commands, warnings, ac, term, passes, subshells, attached, echo, streams, op>>

\* ------------------------------------------------- SubShell operations
Ops == {"print", "printLine", "printList", "clear", "readChar", "readLine", "abortRead"}

\* the terminal or line editor method an operation ends in (lines 169-195)
Target(name) ==
    CASE name = "print" -> "term.write"
      [] name = "printLine" -> "echo.println"
      [] name = "printList" -> "echo.printWide"
      [] name = "clear" -> "term.clear"
      [] name = "readChar" -> "echo.readChar"
      [] name = "readLine" -> "echo.read"
      [] name = "abortRead" -> "echo.abortRead"

OpMessage == <<"m">>

OpsDone == Cardinality({i \in 1..Len(io) : io[i].arg = OpMessage})

NoOp == [shell |-> 0, name |-> "none", destroyed |-> FALSE, threw |-> FALSE]

\* lines 223-256: SubShell.readChar / readLine / abortRead / print / printLine /
\* printList / clear: checkDestroyed(), then the call is forwarded to the session
SubShellCall(c, name) ==
    IF checkDestroyed(c)
    THEN [threw |-> TRUE, io |-> io]
    ELSE [threw |-> FALSE, io |-> Append(io, Call(Target(name), OpMessage))]

\* handler code (running, or left behind by an earlier command) calls an
\* operation of a SubShell it holds; echo.abortRead rejects a pending echo.read
CtxOp ==
    \E c \in 1..Len(subshells), name \in Ops :
        LET r == SubShellCall(c, name) IN
        /\ OpsDone < MaxOps
        /\ io' = r.io
        /\ op' = [shell |-> c, name |-> name, destroyed |-> subshells[c].destroyed,
                  threw |-> r.threw]
        /\ IF name = "abortRead" /\ ~r.threw /\ pc = "read"
           THEN Rejected(Err("Error", <<"aborted">>, "read"))
           ELSE UNCHANGED <<pc, e>>
        /\ UNCHANGED <<commands, warnings, ac, term, passes, line, command, raw_args, subshells,
                       shell, data, attached, echo, streams>>

\* ------------------------------------------------------------- accessors
\* the value of a property read: undefined when the object has no such property
NoValue == [defined |-> FALSE, value |-> Undefined]

Value(v) == [defined |-> TRUE, value |-> v]

\* lines 36-42: the properties the constructor gives an XtermJSShell; the class
\* adds methods only
ShellProperties == {"prompt", "commands", "echo", "term", "env", "attached"}

\* this.shell[name]: a property the session has is named by its name
ShellGet(name) ==
    IF name \in ShellProperties THEN Value(name) ELSE NoValue

\* lines 274-276: get cols()
SubShellCols(c) == ShellGet("cols")

\* lines 278-280: get rows()
SubShellRows(c) == ShellGet("rows")

\* lines 266-268: get commands()
SubShellCommands(c) == MapKeys(commands)

\* the user resizes the terminal
Resize ==
    /\ pc # "new"
    /\ term' \in Sizes \ {term}
    /\ UNCHANGED <<commands, warnings, ac, pc, passes, line, command, raw_args, e,
                   subshells, shell, data, io, attached, echo, streams, op>>

\* lines 286-288: handler code calls destroy() of a SubShell it holds
CtxDestroy ==
    \E c \in 1..Len(subshells) :
        /\ subshells' = destroy(subshells, c)
        /\ op' = [shell |-> c, name |-> "destroy", destroyed |-> subshells[c].destroyed,
                  threw |-> FALSE]
        /\ UNCHANGED <<commands, warnings, ac, term, pc, passes, line, command, raw_args, e,
                       shell, data, io, attached, echo, streams>>

\* ---------------------------------------------------------- readStream
NewStream(c) == [shell |-> c, st |-> "waiting", queue |-> 0]

Live(s) == s.st # "closed"

\* a generator without the test of line 218
ResumeAlways(s) == [s EXCEPT !.st = "yielded"]

\* lines 217-219: the generator receives a chunk from the iterator: it breaks
\* when its SubShell is destroyed (the iterator is closed), yields otherwise
Resume(s) ==
    IF subshells[s.shell].destroyed
    THEN [s EXCEPT !.st = "closed", !.queue = 0]
    ELSE [s EXCEPT !.st = "yielded"]

\* lines 204-217: readStream() and the first pull: the iterator subscribes to
\* term.onData and detaches the session
StreamOpen ==
    \E c \in 1..Len(subshells) :
        LET d == detach(attached, echo) IN
        /\ Len(streams) < MaxStreams
        /\ streams' = Append(streams, NewStream(c))
        /\ attached' = d.attached
        /\ echo' = d.echo
        /\ op' = [shell |-> c, name |-> "readStream", destroyed |-> subshells[c].destroyed,
                  threw |-> FALSE]
        /\ UNCHANGED <<commands, warnings, ac, term, pc, passes, line, command, raw_args, e,
                       subshells, shell, data, io>>

\* lines 211-214 run for every stream that closes in a step: attach()
AfterClose(before, after) ==
    IF \E i \in 1..Len(before) : Live(before[i]) /\ ~Live(after[i])
    THEN attach(attached, echo)
    ELSE [attached |-> attached, echo |-> echo]

\* one terminal input event given to a stream's listener
Deliver(s) ==
    CASE s.st = "closed" -> s
      [] s.st = "waiting" -> Resume(s)
      [] s.st = "yielded" -> [s EXCEPT !.queue = @ + 1]

\* the terminal emits an input event: every subscribed listener is pushed it
TermData ==
    LET after == [i \in 1..Len(streams) |-> Deliver(streams[i])]
        a == AfterClose(streams, after)
    IN  /\ \E i \in 1..Len(streams) : Live(streams[i])
        /\ \A i \in 1..Len(streams) : streams[i].st = "yielded" => streams[i].queue < MaxQueue
        /\ streams' = after
        /\ attached' = a.attached
        /\ echo' = a.echo
        /\ UNCHANGED <<commands, warnings, ac, term, pc, passes, line, command, raw_args, e,
                       subshells, shell, data, io, op>>

\* the consumer asks the generator for the next chunk
StreamNext ==
    \E i \in 1..Len(streams) :
        LET s == streams[i]
            after == [streams EXCEPT ![i] =
                        IF s.queue > 0 THEN Resume([s EXCEPT !.queue = @ - 1])
                        ELSE [s EXCEPT !.st = "waiting"]]
            a == AfterClose(streams, after)
        IN  /\ s.st = "yielded"
            /\ streams' = after
            /\ attached' = a.attached
            /\ echo' = a.echo
            /\ UNCHANGED <<commands, warnings, ac, term, pc, passes, line, command, raw_args, e,
                           subshells, shell, data, io, op>>

\* the consumer leaves its loop: the generator returns, the iterator is closed
StreamBreak ==
    \E i \in 1..Len(streams) :
        LET s == streams[i]
            after == [streams EXCEPT ![i] = [s EXCEPT !.st = "closed", !.queue = 0]]
            a == AfterClose(streams, after)
        IN  /\ s.st = "yielded"
            /\ streams' = after
            /\ attached' = a.attached
            /\ echo' = a.echo
            /\ UNCHANGED <<commands, warnings, ac, term, pc, passes, line, command, raw_args, e,
                           subshells, shell, data, io, op>>

\* ------------------------------------------------------- specifications
\* lines 35-47: the state after construction
Init ==
    /\ commands = <<>>
    /\ warnings = <<>>
    /\ ac = NoCall
    /\ term = DefaultSize
    /\ pc = "new"
    /\ passes = 0
    /\ line = <<>>
    /\ command = Undefined
    /\ raw_args = <<>>
    /\ e = NoError
    /\ subshells = <<>>
    /\ shell = 0
    /\ data = Undefined
    /\ io = <<>>
    /\ attached = TRUE
    /\ echo = [attached |-> TRUE, detach |-> 0, attach |-> 0]
    /\ streams = <<>>
    /\ op = NoOp

\* the host registers a command
Register ==
    \E name \in Names, fn \in Handlers, autocomplete \in Providers \cup {Undefined} :
        /\ Command(name, fn, autocomplete)
        /\ UNCHANGED <<ac, term, pc, passes, line, command, raw_args, e, subshells,
                       shell, data, io, attached, echo, streams, op>>

\* the line editor asks the session for completions
Complete ==
    \E index \in 0..MaxIndex, tokens \in TokenSeqs :
        /\ AutoComplete(index, tokens)
        /\ UNCHANGED <<commands, warnings, term, pc, passes, line, command, raw_args, e, subshells,
                       shell, data, io, attached, echo, streams, op>>

RegNext == Register \/ Complete

\* the registry and the autocomplete resolver
SpecReg == Init /\ [][RegNext]_vars

\* the host registers one command per name before it starts the loop
SetupOf(names, fns) ==
    \E name \in names, fn \in fns :
        /\ pc = "new"
        /\ ~MapHas(commands, name)
        /\ Command(name, fn, Undefined)
        /\ UNCHANGED <<ac, term, pc, passes, line, command, raw_args, e, subshells,
                       shell, data, io, attached, echo, streams, op>>

Setup == SetupOf(Names, Handlers)

ReadLine == ReadLineFrom(Lines)

Run == RunWith(HandlerResults)

Next ==
    \/ Setup
    \/ Start
    \/ Prompt
    \/ ReadLine
    \/ ReadAbort
    \/ Tokenize
    \/ Run
    \/ Resolve
    \/ Reject
    \/ GenYield
    \/ Body
    \/ GenReturn
    \/ GenThrow
    \/ CatchBlock

\* the session driven by its read-eval-print loop
Spec == Init /\ [][Next]_vars

\* handlers that return promises, for one registered command
IOSetup == SetupOf({"a"}, {"h1"})

IOReadLine == ReadLineFrom({<<"a">>})

IORun == RunWith({"promise"})

IONext ==
    \/ IOSetup
    \/ Start
    \/ Prompt
    \/ IOReadLine
    \/ ReadAbort
    \/ Tokenize
    \/ IORun
    \/ Resolve
    \/ Reject
    \/ CatchBlock
    \/ StreamOpen
    \/ TermData
    \/ StreamNext
    \/ StreamBreak

\* the session with handlers that read raw input streams of their SubShell,
\* while they run and after they have returned
SpecIO == Init /\ [][IONext]_vars

OpsNext ==
    \/ IOSetup
    \/ Start
    \/ Prompt
    \/ IOReadLine
    \/ ReadAbort
    \/ Tokenize
    \/ IORun
    \/ Resolve
    \/ Reject
    \/ CatchBlock
    \/ CtxOp
    \/ Resize
    \/ StreamOpen

DestroyNext ==
    \/ IOSetup
    \/ Start
    \/ Prompt
    \/ IOReadLine
    \/ ReadAbort
    \/ Tokenize
    \/ IORun
    \/ Resolve
    \/ Reject
    \/ CatchBlock
    \/ StreamOpen
    \/ TermData
    \/ StreamNext
    \/ StreamBreak
    \/ CtxDestroy

\* the session with raw input streams and handlers that call destroy() of
\* their SubShell themselves, while they run and after they have returned
SpecDestroy == Init /\ [][DestroyNext]_vars

\* lines 52-56: the host calls detach() of the session
HostDetach ==
    LET d == detach(attached, echo) IN
    /\ echo.detach + echo.attach < MaxCalls
    /\ attached' = d.attached
    /\ echo' = d.echo
    /\ UNCHANGED <<commands, warnings, ac, term, pc, passes, line, command, raw_args, e,
                   subshells, shell, data, io, streams, op>>

\* lines 61-65: the host calls attach() of the session
HostAttach ==
    LET a == attach(attached, echo) IN
    /\ echo.detach + echo.attach < MaxCalls
    /\ attached' = a.attached
    /\ echo' = a.echo
    /\ UNCHANGED <<commands, warnings, ac, term, pc, passes, line, command, raw_args, e,
                   subshells, shell, data, io, streams, op>>

HostNext ==
    \/ IOSetup
    \/ Start
    \/ Prompt
    \/ IOReadLine
    \/ ReadAbort
    \/ Tokenize
    \/ IORun
    \/ Resolve
    \/ Reject
    \/ CatchBlock
    \/ StreamOpen
    \/ TermData
    \/ StreamNext
    \/ StreamBreak
    \/ HostDetach
    \/ HostAttach

\* the session with raw input streams and a host that calls detach() and
\* attach() itself at any time
SpecHost == Init /\ [][HostNext]_vars

\* the session with handlers that call the operations of their SubShell, while
\* they run and after they have returned
SpecOps == Init /\ [][OpsNext]_vars
\* ------------------------------------------------------------- registry claims
Registrations == Names \X Handlers \X (Providers \cup {Undefined})

\* the step is the registration r: command(r[1], r[2], r[3]); every registration
\* adds an entry or a warning
Registers(r) ==
    /\ commands' # commands \/ warnings' # warnings
    /\ Command(r[1], r[2], r[3])

\* the names bound in the registry
RegisteredNames == {n \in Names : \E i \in 1..Len(commands) : commands[i].command = n}

\* C7: every registration command(name, fn, autocomplete) leaves has(name) true and
\* get(name) equal to the entry just registered, whatever was bound before; a
\* registration of a bound name adds exactly one warning, replaces the entry in
\* place and raises nothing; the bindings of the other names are untouched
C7_LastWriteWins ==
    [][\A r \in Registrations :
        Registers(r) =>
            /\ MapHas(commands', r[1])
            /\ MapGet(commands', r[1]) = [command |-> r[1], fn |-> r[2], autocomplete |-> r[3]]
            /\ IF MapHas(commands, r[1])
               THEN /\ warnings' = Append(warnings, ERROR_ALREADY_REGISTERED(r[1]))
                    /\ Len(commands') = Len(commands)
               ELSE /\ warnings' = warnings
                    /\ Len(commands') = Len(commands) + 1
            /\ \A n \in Names \ {r[1]} :
                /\ MapHas(commands', n) = MapHas(commands, n)
                /\ MapHas(commands, n) => MapGet(commands', n) = MapGet(commands, n)]_vars

\* a name was registered again while another name is bound as well
C7_Witness ==
    /\ Len(warnings) >= 1
    /\ Len(commands) = 2

\* C8: at index 0 the resolver returns the registered command names, each once,
\* for every tokens array, and calls no provider
C8_AllNames ==
    \A tokens \in TokenSeqs :
        LET r == autoCompleteCommands(0, tokens) IN
        /\ {r.result[i] : i \in 1..Len(r.result)} = RegisteredNames
        /\ Len(r.result) = Cardinality(RegisteredNames)
        /\ r.called = <<>>

\* the line editor asked for index 0 with two commands registered, the typed
\* one having a provider of its own
C8_Witness ==
    /\ ac.done
    /\ ac.index = 0
    /\ Len(ac.tokens) >= 1
    /\ MapHas(commands, ac.tokens[1])
    /\ MapGet(commands, ac.tokens[1]).autocomplete # Undefined
    /\ Len(ac.result) = 2

\* what the resolver owes at index k >= 1 for tokens, read off the registry
C9_State ==
    \A k \in 1..MaxIndex, tokens \in TokenSeqs :
        LET r == autoCompleteCommands(k, tokens)
            args == SubSeq(tokens, 2, Len(tokens))
            hits == {i \in 1..Len(commands) :
                        /\ commands[i].command = Token0(tokens)
                        /\ commands[i].autocomplete # Undefined}
        IN  IF hits = {}
            THEN r.result = <<>> /\ r.called = <<>>
            ELSE \E i \in hits :
                    /\ r.result = <<ProviderCall(commands[i].autocomplete, k - 1, args)>>
                    /\ r.called = r.result

\* after command(name, fn, autocomplete) the resolver consults that provider
C9_Step ==
    \A r \in Registrations :
        Registers(r) =>
            \A k \in 1..MaxIndex, args \in ArgSeqs :
                autoCompleteCommands(k, <<r[1]>> \o args)' =
                    IF r[3] = Undefined
                    THEN [result |-> <<>>, called |-> <<>>]
                    ELSE [result |-> <<ProviderCall(r[3], k - 1, args)>>,
                          called |-> <<ProviderCall(r[3], k - 1, args)>>]

\* C9: at every index k >= 1 the resolver returns exactly what the provider of
\* tokens[0] returns for (k - 1, tokens[1..]) and calls it once; it returns an empty
\* list and calls no provider when tokens[0] is unregistered or registered without
\* a provider; the provider is the one of the latest registration of that name
C9_Delegates == []C9_State /\ [][C9_Step]_vars

\* the line editor asked for an argument position of a command that was
\* registered more than once, and its provider answered
C9_Witness ==
    /\ ac.done
    /\ ac.index >= 1
    /\ Len(ac.called) = 1
    /\ ac.result = ac.called
    /\ ac.result[1].args # <<>>
    /\ Len(warnings) >= 1
\* ----------------------------------------------------------------- loop claims
\* C1: an error raised while tokenizing, looking up the command, or running or
\* draining the handler never leaves repl(): it reaches the catch block, which
\* logs it, prints exactly one line with its message and starts the next pass
C1_ErrorsAreCaught ==
    [][/\ pc \in {"tokenize", "run", "await", "pull", "body", "catch"} => pc' # "rejected"
       /\ pc = "catch" =>
            /\ io' = io \o <<Call("console.error", e.message), Call("echo.println", e.message)>>
            /\ pc' = "prompt"]_vars

\* the SubShell of a run() call that is still pending
Pending(c) == c = shell /\ pc \in {"await", "pull", "body"}

\* C2: every SubShell is destroyed once the run() call that created it has
\* finished, whichever way it finished
C2_DestroyedAfterRun ==
    \A c \in 1..Len(subshells) : Pending(c) \/ subshells[c].destroyed

\* C6: dispatching a non-empty unregistered name constructs no SubShell, calls no
\* handler and writes nothing itself; the error it raises is caught, printed as the
\* one line "Command Not Found: <name>", and the next pass of the loop starts
C6_NotFound ==
    [][/\ (pc = "run" /\ command # Undefined /\ ~MapHas(commands, command)) =>
            /\ subshells' = subshells
            /\ io' = io
            /\ pc' = "catch"
            /\ e'.message = <<"Command Not Found: ", command>>
            /\ e'.src = "lookup"
       /\ (pc = "catch" /\ e.src = "lookup") =>
            /\ subshells' = subshells
            /\ io' = io \o <<Call("console.error", <<"Command Not Found: ", command>>),
                              Call("echo.println", <<"Command Not Found: ", command>>)>>
            /\ pc' = "prompt"]_vars

\* with another command registered, "b x" was answered by the not-found line and
\* the loop is reading its next line; no SubShell exists
C6_Witness ==
    /\ pc = "read"
    /\ passes = 2
    /\ MapHas(commands, "a")
    /\ subshells = <<>>
    /\ Len(io) = 2
    /\ io[2] = Call("echo.println", <<"Command Not Found: ", "b">>)

\* the chunks written to the terminal
Writes == SelectSeq(io, LAMBDA c : c.call = "term.write")

RECURSIVE Yielded(_)
\* the chunks yielded by the lazy sequences of the first n invocations, in order
Yielded(n) == IF n = 0 THEN <<>> ELSE Yielded(n - 1) \o subshells[n].yielded

\* C10: the terminal has been written exactly the chunks the handlers' lazy
\* sequences yielded, in the order they were yielded, each once; at most the chunk
\* held by the loop body is outstanding, and the SubShell of a sequence that is
\* being drained is not destroyed
C10_InOrder ==
    LET all == Yielded(Len(subshells))
        n == IF pc = "body" THEN Len(all) - 1 ELSE Len(all)
    IN  /\ Len(Writes) = n
        /\ \A i \in 1..n : Writes[i].arg = <<all[i]>>
        /\ pc = "body" => data = all[Len(all)]
        /\ pc \in {"pull", "body"} => shell = Len(subshells) /\ ~subshells[shell].destroyed

\* a sequence that yielded b then a was drained and its SubShell destroyed
C10_Witness ==
    \E c \in 1..Len(subshells) :
        /\ subshells[c].destroyed
        /\ subshells[c].yielded = <<"b", "a">>
        /\ Len(Writes) >= 2

\* -------------------------------------------------------------- SubShell claims
\* C3: an operation invoked on a destroyed SubShell throws
C3_DestroyedThrows == op.destroyed => op.threw

\* C4: a stream that opens leaves the line editor detached, the editor stays
\* detached while the stream is open, the stream's end re-attaches it with exactly
\* one attach() call, and once no stream is open the line editor has received as
\* many attach() as detach() calls
C4_Paired ==
    [][/\ \A i \in 1..Len(streams') :
            /\ (i > Len(streams) /\ Live(streams'[i])) => ~echo'.attached
            /\ (i <= Len(streams) /\ Live(streams[i]) /\ Live(streams'[i])) => ~echo'.attached
            /\ (i <= Len(streams) /\ Live(streams[i]) /\ ~Live(streams'[i])) =>
                    echo'.attached /\ echo'.attach = echo.attach + 1
       /\ (\A i \in 1..Len(streams') : ~Live(streams'[i])) => echo'.detach = echo'.attach]_vars

\* C5: while a raw input stream is subscribed to the terminal the session and the
\* line editor are detached
C5_Exclusive ==
    \A i \in 1..Len(streams) : Live(streams[i]) => ~attached /\ ~echo.attached
\* C11: while a handler called by the loop has its result outstanding the loop
\* is inside that run() call: it is not prompting, reading, tokenizing or
\* dispatching, so at most one handler's result is outstanding at any time and
\* it is the one of the SubShell constructed last
C11_OneAtATime ==
    \A c \in 1..Len(subshells) :
        subshells[c].running =>
            /\ pc \in {"await", "pull", "body"}
            /\ c = shell
            /\ c = Len(subshells)

\* the second command of the chain is running after the first one finished
C11_Witness ==
    /\ Len(subshells) = 2
    /\ ~subshells[1].running
    /\ subshells[2].running
    /\ pc = "await"
\* C12: destroy() leaves the SubShell destroyed and raises nothing however often
\* it is called; called on a destroyed SubShell it changes neither the SubShell
\* nor anything of the session
C12_State ==
    /\ op.name = "destroy" => ~op.threw /\ subshells[op.shell].destroyed
    /\ \A c \in 1..Len(subshells) :
        /\ destroy(subshells, c)[c].destroyed
        /\ destroy(destroy(subshells, c), c) = destroy(subshells, c)
        /\ subshells[c].destroyed => destroy(subshells, c) = subshells

C12_Step ==
    (op' # op /\ op'.name = "destroy" /\ op'.destroyed) =>
        UNCHANGED <<commands, warnings, ac, term, pc, passes, line, command, raw_args, e,
                    subshells, shell, data, io, attached, echo, streams>>

C12_Idempotent == []C12_State /\ [][C12_Step]_vars

\* destroy() was called on a SubShell that was destroyed already
C12_Witness ==
    /\ op.name = "destroy"
    /\ op.destroyed
    /\ ~op.threw
    /\ subshells[op.shell].destroyed
\* the command name and the positional arguments typed on a line
C13_Typed(l) ==
    CASE l = <<"a", " ", " ", "x", " ", "y">> -> [name |-> "a", args |-> <<"x", "y">>]
      [] l = <<"b", " ", "-", "v", " ", "x">> -> [name |-> "b", args |-> <<>>]
      [] OTHER -> [name |-> Undefined, args |-> <<>>]

\* C13: the dispatch of a line whose first word is a registered name constructs
\* exactly one new SubShell, leaves the earlier ones as they are, and calls the
\* handler bound to that name in the registry with it and with the positional
\* arguments in the order they were typed
C13_Dispatch ==
    [][\A i \in 1..Len(commands) :
        (pc = "run" /\ pc' # "run" /\ commands[i].command = C13_Typed(line).name) =>
            LET c == Len(subshells) + 1 IN
            /\ Len(subshells') = c
            /\ SubSeq(subshells', 1, Len(subshells)) = subshells
            /\ subshells'[c].fn = commands[i].fn
            /\ subshells'[c].args = C13_Typed(line).args
            /\ subshells'[c].yielded = <<>>]_vars

\* the handler bound to "a", which is not the handler bound to "b", is running
\* with the two words typed after the name
C13_Witness ==
    /\ pc = "await"
    /\ Len(commands) = 2
    /\ commands[1].fn # commands[2].fn
    /\ \E i \in 1..2 : commands[i].command = "a" /\ commands[i].fn = subshells[shell].fn
    /\ subshells[shell].args = <<"x", "y">>
    /\ shell = 2
\* C14: the step in which run() destroys a SubShell closes every raw stream of
\* that SubShell that is still open and leaves the session attached, with no
\* terminal input event needed
C14_DestroyCloses ==
    [][\A i \in 1..Len(streams) :
        (/\ Live(streams[i])
         /\ ~subshells[streams[i].shell].destroyed
         /\ subshells'[streams[i].shell].destroyed) =>
            /\ ~Live(streams'[i])
            /\ attached'
            /\ echo'.attached]_vars
\* C15: the loop started by repl() never stops: the promise of a repl() call is
\* never rejected, whatever the prompt provider, the line read and the
\* tokenizer do
C15_NeverStops == pc # "rejected"
\* C16: at most one SubShell is constructed and not destroyed at any time, and
\* when the loop is about to dispatch a command every SubShell constructed for
\* an earlier command is destroyed
C16_OneActive ==
    /\ Cardinality({c \in 1..Len(subshells) : ~subshells[c].destroyed}) <= 1
    /\ pc = "run" => \A c \in 1..Len(subshells) : subshells[c].destroyed
\* C17: a line that is empty or holds only whitespace has no command name, and
\* its dispatch does nothing: no lookup failure, no SubShell, no handler call,
\* nothing written and no error line; the loop goes on to the next prompt
C17_BlankLine ==
    [][(line \in {<<>>, <<" ">>}) =>
        /\ (pc = "tokenize" /\ pc' = "run") => command' = Undefined
        /\ (pc = "run" /\ pc' # "run") =>
            (/\ pc' = "prompt"
             /\ subshells' = subshells
             /\ io' = io
             /\ e' = e
             /\ warnings' = warnings)]_vars

\* the second pass is reading a line after a first pass that constructed no
\* SubShell and wrote nothing
C17_Witness ==
    /\ pc = "read"
    /\ passes = 2
    /\ Len(commands) = 2
    /\ subshells = <<>>
    /\ io = <<>>
    /\ e = NoError
\* C18: on a SubShell that is not destroyed, cols and rows are the terminal's
\* cols and rows at that moment, and commands is the sequence of the names
\* registered at that moment
C18_ReadThrough ==
    \A c \in 1..Len(subshells) :
        ~subshells[c].destroyed =>
            /\ SubShellCols(c).defined /\ SubShellCols(c).value = term.cols
            /\ SubShellRows(c).defined /\ SubShellRows(c).value = term.rows
            /\ SubShellCommands(c) = [i \in 1..Len(commands) |-> commands[i].command]
\* C19: the session's attached flag is the line editor's attachment state; the
\* line editor's detach() and attach() are called in turn, detach() first, so
\* the line editor is attached exactly when both were called equally often and
\* detached exactly when detach() was called once more; detach() of a detached
\* session and attach() of an attached session change nothing
C19_InTurn ==
    /\ attached = echo.attached
    /\ echo.attached => echo.detach = echo.attach
    /\ ~echo.attached => echo.detach = echo.attach + 1
    /\ ~attached => detach(attached, echo) = [attached |-> attached, echo |-> echo]
    /\ attached => attach(attached, echo) = [attached |-> attached, echo |-> echo]

\* a stream was opened and closed, and after it the host detached the session
C19_Witness ==
    /\ Len(streams) = 1
    /\ ~Live(streams[1])
    /\ ~attached
    /\ echo.detach = 2
    /\ echo.attach = 1
\* the stream i hands a chunk to its consumer in this step
C20_Yields(i) ==
    \/ streams[i].st = "waiting" /\ streams'[i].st = "yielded"
    \/ /\ streams[i].st = "yielded"
       /\ streams'[i].st = "yielded"
       /\ streams'[i].queue < streams[i].queue

====
